---------------------------- MODULE Spec2Model ----------------------------
(***************************************************************************)
(* Model of samlsp.Middleware (src/samlsp/middleware.go): the session and  *)
(* state-correlation layer between a web application and the SAML service  *)
(* provider engine.                                                        *)
(*                                                                         *)
(* Strings whose structure the code inspects (cookie names, header names,  *)
(* claim names, attribute values, URL paths) are sequences of atoms, so    *)
(* that prefix tests, concatenation and canonicalisation are computed.     *)
(* A signed JWT is a record of its algorithm, the key that produced the    *)
(* signature and its claims; only the service provider can produce a       *)
(* token whose key is "sp" (signatures are unforgeable).                   *)
(***************************************************************************)
EXTENDS Integers, Sequences, FiniteSets, TLC

VARIABLES
    AllowIDPInitiated,  \* Middleware.AllowIDPInitiated
    keyOK,              \* Middleware.ServiceProvider.Key can produce RS256 signatures
    now,                \* the clock read by saml.TimeNow and by the JWT validation
    logins,             \* number of authentication requests made so far
    issuedAt,           \* the time at which each of them was made
    sent,               \* every cookie (Name, Value) set by a response already returned
    call,               \* the handler serving the current request, with its parameters
    req,                \* the current request
    resp                \* what the handler did with it

vars == <<AllowIDPInitiated, keyOK, now, logins, issuedAt, sent, call, req, resp>>

---------------------------------------------------------------------------
(* Bounds of the model *)

MaxCookies == 2     \* cookies carried by one request
MaxLogins == 2      \* authentication requests started
MaxSessions == 1    \* session tokens issued
MaxTick == 2        \* clock steps

(* Program constants *)

cookieMaxAge == 3600        \* time.Hour, in seconds
MaxIssueDelay == 90         \* saml.MaxIssueDelay, in seconds

cookieName == <<"token">>
samlPrefix == <<"saml_">>
xSaml == <<"X-Saml">>
xSamlDash == <<"X-Saml", "-">>

---------------------------------------------------------------------------
(* Strings *)

HasPrefix(s, p) == Len(s) >= Len(p) /\ SubSeq(s, 1, Len(p)) = p

Range(s) == {s[i] : i \in 1..Len(s)}

UpperOf == [a |-> "A", d |-> "D", e |-> "E", i |-> "I", l |-> "L", m |-> "M",
            n |-> "N", o |-> "O", p |-> "P", r |-> "R", u |-> "U", x |-> "X"]

ToUpper(c) == IF c \in DOMAIN UpperOf THEN UpperOf[c] ELSE c

ToLower(c) ==
    IF \E l \in DOMAIN UpperOf : UpperOf[l] = c
    THEN CHOOSE l \in DOMAIN UpperOf : UpperOf[l] = c
    ELSE c

\* bytes that may not appear in a header field name
InvalidHeaderBytes == {":", " "}

\* textproto.CanonicalMIMEHeaderKey: the first letter and every letter after a
\* hyphen in upper case, the others in lower case; a key holding an invalid
\* byte is returned unchanged.
CanonicalHeaderKey(s) ==
    IF Range(s) \cap InvalidHeaderBytes # {}
    THEN s
    ELSE [i \in 1..Len(s) |->
            IF i = 1 \/ s[i - 1] = "-" THEN ToUpper(s[i]) ELSE ToLower(s[i])]

\* fmt.Sprintf("X-Saml-%s", name)
XSamlName(name) == xSamlDash \o name

\* fmt.Sprintf("saml_%s", relayState)
SamlCookieName(relayState) == samlPrefix \o relayState

---------------------------------------------------------------------------
(* Values of the model *)

attrRole == <<"r", "o", "l", "e">>
attrRoleCap == <<"R", "o", "l", "e">>
claimExp == <<"e", "x", "p">>
claimID == <<"i", "d">>
claimURI == <<"u", "r", "i">>

admin == <<"adm", "in">>
adm == <<"adm">>
user == <<"user">>

\* URL paths: the string is "/" followed by each segment in turn, <<>> is "".
AcsPath == <<"saml", "acs">>
MetadataPath == <<"saml", "metadata">>
AppPath == <<"app">>
AppSlashPath == <<"app", "", "x">>
RootPath == <<"">>
AcsSlashPath == <<"saml", "acs", "">>

\* the identifiers drawn from saml.RandReader, in the order they are drawn:
\* the n-th authentication request has ID RequestIDs[n] and relay state
\* RelayStates[n] (random identifiers do not repeat)
EmptyString == <<>>
RequestIDs == <<(<<"id-1">>), (<<"id-2">>), (<<"id-3">>), (<<"id-4">>)>>
RelayStates == <<(<<"rs-1">>), (<<"rs-2">>), (<<"rs-3">>), (<<"rs-4">>)>>

\* claim values: a JSON string, array of strings, or number
Str(s) == [t |-> "str", s |-> s, a |-> <<>>, n |-> 0]
Arr(a) == [t |-> "arr", s |-> <<>>, a |-> a, n |-> 0]
Num(n) == [t |-> "num", s |-> <<>>, a |-> <<>>, n |-> n]

NoClaims == [k \in {} |-> Num(0)]

\* cookie values: the empty string, a string that is no JWT, or a JWT
Empty == [form |-> "empty", alg |-> "", key |-> "", claims |-> NoClaims]
Garbage == [form |-> "garbage", alg |-> "", key |-> "", claims |-> NoClaims]
Jwt(alg, key, claims) == [form |-> "jwt", alg |-> alg, key |-> key, claims |-> claims]


NoHeader == [k \in {} |-> <<>>]

\* a URL as the server parses it from the request line; its string form is
\* the path followed, when there is a query, by "?" and the query
URL(path, query) == [Path |-> path, RawQuery |-> query]

URLString(u) ==
    IF u.RawQuery = <<>> THEN u.Path ELSE u.Path \o <<"?">> \o u.RawQuery

---------------------------------------------------------------------------
(* JSON Web Tokens *)

RSAMethods == {"RS256", "RS384", "RS512"}

\* token.SignedString(m.ServiceProvider.Key) of a jwt.New(RS256) token
SignedString(claims) == Jwt("RS256", "sp", claims)

\* jwt.MapClaims.Valid: an "exp" claim that is a number must not be in the past
ClaimsValid(claims, t) ==
    (claimExp \in DOMAIN claims /\ claims[claimExp].t = "num")
        => t <= claims[claimExp].n

\* as JwtValid, without the validation of the claims
NoExpiryCheck(token, t) ==
    /\ token.form = "jwt"
    /\ token.alg \in RSAMethods
    /\ token.key = "sp"

\* as JwtValid, without the test of the signing method in the key function
AnyAlgorithm(token, t) ==
    /\ token.form = "jwt"
    /\ token.key \in {"sp", "sp-public"}
    /\ ClaimsValid(token.claims, t)

\* jwt.Parse with the key function of the middleware: err == nil && token.Valid
JwtValid(token, t) ==
    /\ token.form = "jwt"
    /\ token.alg \in RSAMethods
    /\ token.key = "sp"
    /\ ClaimsValid(token.claims, t)

\* the claims of the two tokens the middleware signs
StateClaims(reqID, uriString) ==
    (claimID :> Str(reqID)) @@ (claimURI :> Str(uriString))

---------------------------------------------------------------------------
(* Requests *)

\* http.Request.Cookie: the first cookie of that name, 0 for ErrNoCookie
CookieIndex(cookies, name) ==
    IF \E i \in 1..Len(cookies) : cookies[i].Name = name
    THEN CHOOSE i \in 1..Len(cookies) :
            /\ cookies[i].Name = name
            /\ \A j \in 1..(i - 1) : cookies[j].Name # name
    ELSE 0

\* http.Header.Add
HeaderAdd(h, key, value) ==
    LET k == CanonicalHeaderKey(key)
    IN  IF k \in DOMAIN h
        THEN [h EXCEPT ![k] = Append(@, value)]
        ELSE h @@ (k :> <<value>>)

RECURSIVE AddValues(_, _, _)
AddValues(h, key, values) ==
    IF values = <<>> THEN h
    ELSE AddValues(HeaderAdd(h, key, Head(values)), key, Tail(values))

\* the loop of IsAuthorized over the claims, taken in the given order
RECURSIVE Project(_, _, _)
Project(h, order, claims) ==
    IF order = <<>> THEN h
    ELSE Project(AddValues(h, XSamlName(Head(order)), claims[Head(order)].a),
                 Tail(order), claims)

\* the orders in which a range over a Go map may visit the keys
Orders(keys) ==
    {o \in [1..Cardinality(keys) -> keys] :
        \A i, j \in 1..Cardinality(keys) : i # j => o[i] # o[j]}


Request(u, cookies, header, relayState, samlResponse) ==
    [URL |-> u, Cookies |-> cookies, Header |-> header,
     RelayState |-> relayState, SAMLResponse |-> samlResponse]

\* a Set-Cookie of the response; Path <<>>, MaxAge 0 and the zero time of
\* Expires are the unset fields, which are not written
SetCookie(name, value, path, maxAge) ==
    [Name |-> name, Value |-> value, Path |-> path, MaxAge |-> maxAge,
     Expires |-> "zero", HttpOnly |-> FALSE]

NoRequest ==
    Request(URL(<<>>, <<>>), <<>>, NoHeader, <<>>,
            [valid |-> FALSE, InResponseTo |-> <<>>, Attributes |-> <<>>])

\* what a handler did: the response written (or the panic), whether the wrapped
\* handler ran and the request headers it was given, and the values the
\* handler computed on the way: what IsAuthorized returned, whether
\* MakeAuthenticationRequest returned a request, whether getPossibleRequestIDs
\* returned and what, whether ParseResponse accepted
NoResponse ==
    [kind |-> "none", Status |-> 0, Body |-> "", Location |-> <<>>,
     SetCookies |-> <<>>, next |-> FALSE, Header |-> NoHeader,
     authorized |-> "-", made |-> "-", collected |-> FALSE, ids |-> <<>>,
     accepted |-> FALSE]

Panic == [NoResponse EXCEPT !.kind = "panic"]

\* http.Error(w, http.StatusText(http.StatusForbidden), http.StatusForbidden)
Forbidden == [NoResponse EXCEPT !.kind = "http", !.Status = 403, !.Body = "Forbidden"]

---------------------------------------------------------------------------
(* IsAuthorized *)

\* as IsAuthorized, without the test of the headers the request came with
IsAuthorizedMerging(r, t) ==
    LET i == CookieIndex(r.Cookies, cookieName)
        token == r.Cookies[i].Value
        names == DOMAIN token.claims \ {claimExp}
    IN  IF i = 0 \/ ~JwtValid(token, t)
        THEN {[ret |-> "false", Header |-> r.Header]}
        ELSE IF \E n \in names : token.claims[n].t # "arr"
        THEN {[ret |-> "panic", Header |-> r.Header]}
        ELSE {[ret |-> "true", Header |-> Project(r.Header, o, token.claims)] :
                o \in Orders(names)}

\* as IsAuthorized, passing over the claims that are no arrays
IsAuthorizedSkipping(r, t) ==
    LET i == CookieIndex(r.Cookies, cookieName)
        token == r.Cookies[i].Value
        names == {n \in DOMAIN token.claims \ {claimExp} : token.claims[n].t = "arr"}
    IN  IF i = 0 \/ ~JwtValid(token, t)
        THEN {[ret |-> "false", Header |-> r.Header]}
        ELSE IF \E h \in DOMAIN r.Header : HasPrefix(h, xSaml)
        THEN {[ret |-> "panic", Header |-> r.Header]}
        ELSE {[ret |-> "true", Header |-> Project(r.Header, o, token.claims)] :
                o \in Orders(names)}

\* The outcomes of m.IsAuthorized(r) at time t: what it returns ("true",
\* "false") or "panic", and the request's headers afterwards.  There are
\* several when the order of the map iteration shows in the headers.
IsAuthorized(r, t) ==
    LET i == CookieIndex(r.Cookies, cookieName)
        token == r.Cookies[i].Value
        names == DOMAIN token.claims \ {claimExp}
    IN  IF i = 0 \/ ~JwtValid(token, t)
        THEN {[ret |-> "false", Header |-> r.Header]}
        ELSE IF \E h \in DOMAIN r.Header : HasPrefix(h, xSaml)
        THEN {[ret |-> "panic", Header |-> r.Header]}
        ELSE IF \E n \in names : token.claims[n].t # "arr"
        THEN {[ret |-> "panic", Header |-> r.Header]}
        ELSE {[ret |-> "true", Header |-> Project(r.Header, o, token.claims)] :
                o \in Orders(names)}

---------------------------------------------------------------------------
(* The protocol engine, saml.ServiceProvider *)

\* AuthnRequest.Redirect(relayState): the URL of the identity provider's
\* redirect binding carrying the request and the relay state
Redirect(reqID, relayState) ==
    <<"https://idp/sso", "?SAMLRequest=">> \o reqID \o <<"&RelayState=">> \o relayState

\* ServiceProvider.ParseResponse(r, possibleRequestIDs): the response is
\* accepted when it is valid and answers one of the possible request IDs
ParseResponse(r, possibleRequestIDs) ==
    /\ r.SAMLResponse.valid
    /\ r.SAMLResponse.InResponseTo \in Range(possibleRequestIDs)

---------------------------------------------------------------------------
(* RequireAccount *)

\* as RequireAccountServe, without the test of what IsAuthorized returned
RequireAccountUnchecked(r, auth, made, n, signs) ==
    IF auth.ret = "panic"
    THEN [Panic EXCEPT !.authorized = "panic"]
    ELSE [NoResponse EXCEPT !.kind = "http", !.Status = 200, !.Body = "handler",
                            !.next = TRUE, !.Header = auth.Header,
                            !.authorized = auth.ret]

\* as RequireAccountServe, with the path of the request for its URI
RequireAccountPathOnly(r, auth, made, n, signs) ==
    IF auth.ret = "panic"
    THEN [Panic EXCEPT !.authorized = "panic"]
    ELSE IF auth.ret = "true"
    THEN [NoResponse EXCEPT !.kind = "http", !.Status = 200, !.Body = "handler",
                            !.next = TRUE, !.Header = auth.Header,
                            !.authorized = "true"]
    ELSE IF r.URL.Path = AcsPath
    THEN [Panic EXCEPT !.authorized = "false"]
    ELSE IF ~made \/ ~signs
    THEN [NoResponse EXCEPT !.kind = "http", !.Status = 500, !.Body = "error",
                            !.authorized = "false",
                            !.made = IF made THEN "ok" ELSE "err"]
    ELSE [NoResponse EXCEPT
            !.kind = "http", !.Status = 302, !.authorized = "false", !.made = "ok",
            !.SetCookies =
                <<SetCookie(SamlCookieName(RelayStates[n]),
                            SignedString(StateClaims(RequestIDs[n], r.URL.Path)),
                            AcsPath, MaxIssueDelay)>>,
            !.Location = Redirect(RequestIDs[n], RelayStates[n])]

\* as RequireAccountServe, without the test of the request's path
RequireAccountLoops(r, auth, made, n, signs) ==
    IF auth.ret = "panic"
    THEN [Panic EXCEPT !.authorized = "panic"]
    ELSE IF auth.ret = "true"
    THEN [NoResponse EXCEPT !.kind = "http", !.Status = 200, !.Body = "handler",
                            !.next = TRUE, !.Header = auth.Header,
                            !.authorized = "true"]
    ELSE IF ~made \/ ~signs
    THEN [NoResponse EXCEPT !.kind = "http", !.Status = 500, !.Body = "error",
                            !.authorized = "false",
                            !.made = IF made THEN "ok" ELSE "err"]
    ELSE [NoResponse EXCEPT
            !.kind = "http", !.Status = 302, !.authorized = "false", !.made = "ok",
            !.SetCookies =
                <<SetCookie(SamlCookieName(RelayStates[n]),
                            SignedString(StateClaims(RequestIDs[n], URLString(r.URL))),
                            AcsPath, MaxIssueDelay)>>,
            !.Location = Redirect(RequestIDs[n], RelayStates[n])]

\* as RequireAccountServe, with an expiry in the state token: the time of the
\* request plus the maximum issue delay
RequireAccountExpiring(r, auth, made, n, signs) ==
    IF auth.ret = "panic"
    THEN [Panic EXCEPT !.authorized = "panic"]
    ELSE IF auth.ret = "true"
    THEN [NoResponse EXCEPT !.kind = "http", !.Status = 200, !.Body = "handler",
                            !.next = TRUE, !.Header = auth.Header,
                            !.authorized = "true"]
    ELSE IF r.URL.Path = AcsPath
    THEN [Panic EXCEPT !.authorized = "false"]
    ELSE IF ~made \/ ~signs
    THEN [NoResponse EXCEPT !.kind = "http", !.Status = 500, !.Body = "error",
                            !.authorized = "false",
                            !.made = IF made THEN "ok" ELSE "err"]
    ELSE [NoResponse EXCEPT
            !.kind = "http", !.Status = 302, !.authorized = "false", !.made = "ok",
            !.SetCookies =
                <<SetCookie(SamlCookieName(RelayStates[n]),
                            SignedString((claimExp :> Num(now + MaxIssueDelay))
                                @@ StateClaims(RequestIDs[n], URLString(r.URL))),
                            AcsPath, MaxIssueDelay)>>,
            !.Location = Redirect(RequestIDs[n], RelayStates[n])]

\* The handler RequireAccount(handler) returns, serving r: auth is the
\* outcome of IsAuthorized, made whether MakeAuthenticationRequest returned a
\* request, n the index of the fresh identifiers, signs whether the key signs.
RequireAccountServe(r, auth, made, n, signs) ==
    IF auth.ret = "panic"
    THEN [Panic EXCEPT !.authorized = "panic"]
    ELSE IF auth.ret = "true"
    THEN [NoResponse EXCEPT !.kind = "http", !.Status = 200, !.Body = "handler",
                            !.next = TRUE, !.Header = auth.Header,
                            !.authorized = "true"]
    ELSE IF r.URL.Path = AcsPath
    THEN [Panic EXCEPT !.authorized = "false"]
    ELSE IF ~made
    THEN [NoResponse EXCEPT !.kind = "http", !.Status = 500, !.Body = "error",
                            !.authorized = "false", !.made = "err"]
    ELSE IF ~signs
    THEN [NoResponse EXCEPT !.kind = "http", !.Status = 500, !.Body = "error",
                            !.authorized = "false", !.made = "ok"]
    ELSE [NoResponse EXCEPT
            !.kind = "http", !.Status = 302, !.authorized = "false", !.made = "ok",
            !.SetCookies =
                <<SetCookie(SamlCookieName(RelayStates[n]),
                            SignedString(StateClaims(RequestIDs[n], URLString(r.URL))),
                            AcsPath, MaxIssueDelay)>>,
            !.Location = Redirect(RequestIDs[n], RelayStates[n])]

---------------------------------------------------------------------------
(* RequireAttribute *)

\* as RequireAttributeServe, with a prefix match of the values
RequireAttributePrefix(r, name, value) ==
    LET k == CanonicalHeaderKey(XSamlName(name))
    IN  IF k \in DOMAIN r.Header
            /\ \E i \in 1..Len(r.Header[k]) : HasPrefix(r.Header[k][i], value)
        THEN [NoResponse EXCEPT !.kind = "http", !.Status = 200, !.Body = "handler",
                                !.next = TRUE, !.Header = r.Header]
        ELSE Forbidden

\* The handler RequireAttribute(name, value)(handler) returns, serving r
RequireAttributeServe(r, name, value) ==
    LET k == CanonicalHeaderKey(XSamlName(name))
    IN  IF k \in DOMAIN r.Header /\ \E i \in 1..Len(r.Header[k]) : r.Header[k][i] = value
        THEN [NoResponse EXCEPT !.kind = "http", !.Status = 200, !.Body = "handler",
                                !.next = TRUE, !.Header = r.Header]
        ELSE Forbidden


---------------------------------------------------------------------------
(* getPossibleRequestIDs *)

\* the cookies the loop does not skip at its first test
IsStateCookie(c) == HasPrefix(c.Name, samlPrefix) /\ c.Value # Empty

\* claims[k].(string) panics unless the claim is there and is a string
IsStringClaim(claims, k) == k \in DOMAIN claims /\ claims[k].t = "str"

RECURSIVE CollectIDs(_, _)
CollectIDs(cookies, t) ==
    IF cookies = <<>> THEN <<>>
    ELSE LET c == Head(cookies)
         IN  IF IsStateCookie(c) /\ JwtValid(c.Value, t)
             THEN <<c.Value.claims[claimID].s>> \o CollectIDs(Tail(cookies), t)
             ELSE CollectIDs(Tail(cookies), t)

\* m.getPossibleRequestIDs(r) at time t: it panics at the first cookie that
\* verifies and holds no string "id", and returns the list otherwise
getPossibleRequestIDs(r, t, allowIDPInitiated) ==
    IF \E i \in 1..Len(r.Cookies) :
            /\ IsStateCookie(r.Cookies[i])
            /\ JwtValid(r.Cookies[i].Value, t)
            /\ ~IsStringClaim(r.Cookies[i].Value.claims, claimID)
    THEN [panic |-> TRUE, ids |-> <<>>]
    ELSE [panic |-> FALSE,
          ids |-> CollectIDs(r.Cookies, t)
                    \o (IF allowIDPInitiated THEN <<EmptyString>> ELSE <<>>)]

---------------------------------------------------------------------------
(* Authorize *)

\* path.Clean of an absolute path, on its segments: empty and "." segments
\* are dropped, ".." drops the segment before it
RECURSIVE CleanSegments(_, _)
CleanSegments(done, rest) ==
    IF rest = <<>> THEN done
    ELSE IF Head(rest) \in {"", "."} THEN CleanSegments(done, Tail(rest))
    ELSE IF Head(rest) = ".."
    THEN CleanSegments(IF done = <<>> THEN done ELSE SubSeq(done, 1, Len(done) - 1),
                       Tail(rest))
    ELSE CleanSegments(Append(done, Head(rest)), Tail(rest))

PathClean(path) ==
    LET cleaned == CleanSegments(<<>>, path)
    IN  IF cleaned = <<>> THEN RootPath ELSE cleaned

\* the position of the first "?" of a URL string, 0 when there is none
QueryIndex(url) ==
    IF \E i \in 1..Len(url) : url[i] = "?"
    THEN CHOOSE i \in 1..Len(url) : url[i] = "?" /\ \A j \in 1..(i - 1) : url[j] # "?"
    ELSE 0

\* The Location http.Redirect(w, r, url, code) writes: a URL without scheme
\* and host has its path made absolute against the request's and cleaned, a
\* trailing slash and the query kept.
RedirectLocation(r, url) ==
    LET q == QueryIndex(url)
        rawPath == IF q = 0 THEN url ELSE SubSeq(url, 1, q - 1)
        query == IF q = 0 THEN <<>> ELSE SubSeq(url, q, Len(url))
        oldDir == SubSeq(r.URL.Path, 1, Len(r.URL.Path) - 1)
        path == IF rawPath = <<>> THEN oldDir \o <<"">> ELSE rawPath
        trailing == path[Len(path)] = ""
        cleaned == PathClean(path)
    IN  IF Len(rawPath) > 1 /\ rawPath[1] = ""
        THEN url
        ELSE (IF trailing /\ cleaned # RootPath THEN cleaned \o <<"">> ELSE cleaned)
                \o query

\* the loop of Authorize over the attributes of the assertion
RECURSIVE AttributeClaims(_, _)
AttributeClaims(claims, attributes) ==
    IF attributes = <<>> THEN claims
    ELSE LET attr == Head(attributes)
             claimName == IF attr.FriendlyName = <<>> THEN attr.Name
                          ELSE attr.FriendlyName
         IN  AttributeClaims(
                (claimName :> Arr(attr.Values)) @@ claims, Tail(attributes))

\* the claims of the session token: the attributes, then "exp"
SessionClaims(attributes, t) ==
    (claimExp :> Num(t + cookieMaxAge)) @@ AttributeClaims(NoClaims, attributes)

\* as Authorize, redirecting to "/" whatever the state cookie says
AuthorizeToRoot(r, attributes, t, signs) ==
    LET name == SamlCookieName(r.RelayState)
        i == CookieIndex(r.Cookies, name)
        state == r.Cookies[i].Value
        relayed == r.RelayState # <<>>
        cleared == IF relayed THEN <<SetCookie(name, Empty, <<>>, 0)>> ELSE <<>>
    IN  IF relayed /\ i = 0 THEN Forbidden
        ELSE IF relayed /\ ~JwtValid(state, t) THEN Forbidden
        ELSE IF relayed /\ ~IsStringClaim(state.claims, claimURI) THEN Panic
        ELSE IF ~signs THEN Panic
        ELSE [NoResponse EXCEPT
                !.kind = "http", !.Status = 302,
                !.SetCookies = cleared \o
                    <<SetCookie(cookieName,
                                SignedString(SessionClaims(attributes, t)),
                                RootPath, cookieMaxAge)>>,
                !.Location = RedirectLocation(r, RootPath)]

\* as Authorize, refusing the request when the session token cannot be signed
AuthorizeQuiet(r, attributes, t, signs) ==
    LET name == SamlCookieName(r.RelayState)
        i == CookieIndex(r.Cookies, name)
        state == r.Cookies[i].Value
        relayed == r.RelayState # <<>>
        redirectURI == IF relayed THEN state.claims[claimURI].s ELSE RootPath
        cleared == IF relayed THEN <<SetCookie(name, Empty, <<>>, 0)>> ELSE <<>>
    IN  IF relayed /\ i = 0 THEN Forbidden
        ELSE IF relayed /\ ~JwtValid(state, t) THEN Forbidden
        ELSE IF relayed /\ ~IsStringClaim(state.claims, claimURI) THEN Panic
        ELSE IF ~signs THEN Forbidden
        ELSE [NoResponse EXCEPT
                !.kind = "http", !.Status = 302,
                !.SetCookies = cleared \o
                    <<SetCookie(cookieName,
                                SignedString(SessionClaims(attributes, t)),
                                RootPath, cookieMaxAge)>>,
                !.Location = RedirectLocation(r, redirectURI)]

\* as Authorize, with a record on the server of the logins completed, which
\* refuses a login once another has completed
AuthorizeSingleFlight(r, attributes, t, signs) ==
    LET name == SamlCookieName(r.RelayState)
        i == CookieIndex(r.Cookies, name)
        state == r.Cookies[i].Value
        relayed == r.RelayState # <<>>
        redirectURI == IF relayed THEN state.claims[claimURI].s ELSE RootPath
        cleared == IF relayed THEN <<SetCookie(name, Empty, <<>>, 0)>> ELSE <<>>
    IN  IF relayed /\ i = 0 THEN Forbidden
        ELSE IF relayed /\ ~JwtValid(state, t) THEN Forbidden
        ELSE IF relayed /\ \E c \in sent : c.Value = Empty /\ c.Name # name
        THEN Forbidden
        ELSE IF relayed /\ ~IsStringClaim(state.claims, claimURI) THEN Panic
        ELSE IF ~signs THEN Panic
        ELSE [NoResponse EXCEPT
                !.kind = "http", !.Status = 302,
                !.SetCookies = cleared \o
                    <<SetCookie(cookieName,
                                SignedString(SessionClaims(attributes, t)),
                                RootPath, cookieMaxAge)>>,
                !.Location = RedirectLocation(r, redirectURI)]

\* m.Authorize(w, r, assertion) at time t
Authorize(r, attributes, t, signs) ==
    LET name == SamlCookieName(r.RelayState)
        i == CookieIndex(r.Cookies, name)
        state == r.Cookies[i].Value
        relayed == r.RelayState # <<>>
        redirectURI == IF relayed THEN state.claims[claimURI].s ELSE RootPath
        cleared == IF relayed THEN <<SetCookie(name, Empty, <<>>, 0)>> ELSE <<>>
    IN  IF relayed /\ i = 0 THEN Forbidden
        ELSE IF relayed /\ ~JwtValid(state, t) THEN Forbidden
        ELSE IF relayed /\ ~IsStringClaim(state.claims, claimURI) THEN Panic
        ELSE IF ~signs THEN Panic
        ELSE [NoResponse EXCEPT
                !.kind = "http", !.Status = 302,
                !.SetCookies = cleared \o
                    <<SetCookie(cookieName,
                                SignedString(SessionClaims(attributes, t)),
                                RootPath, cookieMaxAge)>>,
                !.Location = RedirectLocation(r, redirectURI)]

---------------------------------------------------------------------------
(* ServeHTTP *)

\* as ServeHTTP, taking every path under the assertion consumer's for it
ServeHTTPPrefix(r, t, allowIDPInitiated, signs) ==
    LET possible == getPossibleRequestIDs(r, t, allowIDPInitiated)
    IN  IF r.URL.Path = MetadataPath
        THEN [NoResponse EXCEPT !.kind = "http", !.Status = 200, !.Body = "metadata"]
        ELSE IF ~HasPrefix(r.URL.Path, AcsPath)
        THEN [NoResponse EXCEPT !.kind = "http", !.Status = 404, !.Body = "not found"]
        ELSE IF possible.panic THEN Panic
        ELSE IF ~ParseResponse(r, possible.ids)
        THEN [Forbidden EXCEPT !.collected = TRUE, !.ids = possible.ids]
        ELSE [Authorize(r, r.SAMLResponse.Attributes, t, signs) EXCEPT
                !.collected = TRUE, !.ids = possible.ids, !.accepted = TRUE]

\* m.ServeHTTP(w, r) at time t
ServeHTTP(r, t, allowIDPInitiated, signs) ==
    LET possible == getPossibleRequestIDs(r, t, allowIDPInitiated)
    IN  IF r.URL.Path = MetadataPath
        THEN [NoResponse EXCEPT !.kind = "http", !.Status = 200, !.Body = "metadata"]
        ELSE IF r.URL.Path # AcsPath
        THEN [NoResponse EXCEPT !.kind = "http", !.Status = 404, !.Body = "not found"]
        ELSE IF possible.panic THEN Panic
        ELSE IF ~ParseResponse(r, possible.ids)
        THEN [Forbidden EXCEPT !.collected = TRUE, !.ids = possible.ids]
        ELSE [Authorize(r, r.SAMLResponse.Attributes, t, signs) EXCEPT
                !.collected = TRUE, !.ids = possible.ids, !.accepted = TRUE]


---------------------------------------------------------------------------
(* The requests of the model *)

SeqsUpTo(S, n) == UNION {[1..k -> S] : k \in 0..n}

Attribute(name, friendlyName, values) ==
    [Name |-> name, FriendlyName |-> friendlyName, Values |-> values]

\* attribute statements: a friendly-named, multi-valued attribute; and
\* attributes without friendly name, one of them named like the expiry claim
Assertions ==
    { <<Attribute(<<"u", "r", "n", ":", "r", "o", "l", "e">>, attrRole, <<user, admin>>)>>,
      <<Attribute(attrRole, <<>>, <<user>>), Attribute(claimExp, <<>>, <<user>>)>> }

FarFuture == cookieMaxAge * (MaxTick + 2)

\* tokens not signed by the service provider's key, or not with an RSA method
ForgedSessions ==
    LET claims == (attrRole :> Arr(<<admin>>)) @@ (claimExp :> Num(FarFuture))
    IN  {Jwt("RS256", "other", claims), Jwt("HS256", "sp-public", claims)}

ForgedStates ==
    LET claims == StateClaims(RequestIDs[1], AppPath)
    IN  {Jwt("RS256", "other", claims), Jwt("HS256", "sp-public", claims)}

\* the tokens the middleware has signed so far
SentValues == {c.Value : c \in sent} \ {Empty}

StrangerRelay == <<"x">>

ClientHeaders == {NoHeader, CanonicalHeaderKey(XSamlName(attrRole)) :> <<admin>>}

\* requests to the application, behind RequireAccount
GateURLs ==
    {URL(AppPath, <<>>), URL(AppSlashPath, <<"q=1">>), URL(AcsPath, <<>>)}

GateCookies ==
    {[Name |-> cookieName, Value |-> v] :
        v \in SentValues \cup ForgedSessions \cup {Garbage}}

GateRequests ==
    {Request(u, cs, h, <<>>, NoRequest.SAMLResponse) :
        u \in GateURLs, cs \in SeqsUpTo(GateCookies, MaxCookies), h \in ClientHeaders}

\* requests to the middleware's own endpoints
KnownRelays == {RelayStates[i] : i \in 1..logins}

AcsCookies ==
    {c \in sent : HasPrefix(c.Name, samlPrefix)}
    \cup {[Name |-> SamlCookieName(StrangerRelay), Value |-> v] :
            v \in {w \in SentValues : claimID \notin DOMAIN w.claims}
                    \cup ForgedStates \cup {Garbage}}

\* the cookies of a browser with two logins in flight: the state cookies of
\* both and a cookie that does not verify, in any order
ConcurrentCookies ==
    {cs \in [1..3 -> AcsCookies] :
        /\ \A i, j \in 1..3 : i # j => cs[i].Name # cs[j].Name
        /\ Cardinality({i \in 1..3 : cs[i] \in sent /\ cs[i].Value # Empty}) = 2
        /\ \E i \in 1..3 : cs[i].Value \in ForgedStates \cup {Garbage}}

SAMLResponses ==
    {NoRequest.SAMLResponse}
    \cup {[valid |-> TRUE, InResponseTo |-> i, Attributes |-> a] :
            i \in {EmptyString} \cup {RequestIDs[k] : k \in 1..logins},
            a \in Assertions}

EndpointRequests ==
    {Request(URL(AcsPath, <<>>), cs, NoHeader, rs, sr) :
        cs \in SeqsUpTo(AcsCookies, MaxCookies) \cup ConcurrentCookies,
        rs \in {EmptyString, StrangerRelay} \cup KnownRelays,
        sr \in SAMLResponses}
    \cup {Request(URL(p, <<>>), <<>>, NoHeader, <<>>, NoRequest.SAMLResponse) :
            p \in {MetadataPath, AppPath, AcsSlashPath}}

\* requests behind RequireAttribute: with the headers a client sends, or
\* with those IsAuthorized projects from a session token
ProjectedHeaders ==
    UNION {{o.Header : o \in IsAuthorized(
                Request(URL(AppPath, <<>>), <<[Name |-> cookieName, Value |-> v]>>,
                        NoHeader, <<>>, NoRequest.SAMLResponse), now)} :
            v \in SentValues}

AttributeRequests ==
    {Request(URL(AppPath, <<>>), <<>>, h, <<>>, NoRequest.SAMLResponse) :
        h \in ClientHeaders \cup ProjectedHeaders
                \cup {CanonicalHeaderKey(XSamlName(attrRole)) :> <<user>>}}

Idle == [fn |-> "idle", name |-> <<>>, value |-> <<>>]

NamesOf(cookies) == {[Name |-> cookies[i].Name, Value |-> cookies[i].Value] :
                        i \in 1..Len(cookies)}

Sessions(cookies) == {c \in cookies : c.Name = cookieName}

---------------------------------------------------------------------------
(* The state machine *)

Init ==
    /\ AllowIDPInitiated \in BOOLEAN
    /\ keyOK \in BOOLEAN
    /\ now = 0
    /\ logins = 0
    /\ issuedAt = <<>>
    /\ sent = {}
    /\ call = Idle
    /\ req = NoRequest
    /\ resp = NoResponse

\* a request served by RequireAccount(handler)
RequireAccount ==
    /\ call = Idle
    /\ \E r \in GateRequests, made \in BOOLEAN :
        \E auth \in IsAuthorized(r, now) :
            LET asks == auth.ret = "false" /\ r.URL.Path # AcsPath /\ made
                out == RequireAccountServe(r, auth, made, logins + 1, keyOK)
            IN  /\ asks => logins < MaxLogins
                /\ logins' = IF asks THEN logins + 1 ELSE logins
                /\ issuedAt' = IF asks THEN Append(issuedAt, now) ELSE issuedAt
                /\ call' = [Idle EXCEPT !.fn = "RequireAccount"]
                /\ req' = r
                /\ resp' = out
    /\ UNCHANGED <<AllowIDPInitiated, keyOK, now, sent>>

\* a request served by RequireAttribute(name, value)(handler)
RequireAttribute ==
    /\ call = Idle
    /\ \E r \in AttributeRequests, name \in {attrRole, attrRoleCap}, value \in {admin, adm} :
        /\ call' = [fn |-> "RequireAttribute", name |-> name, value |-> value]
        /\ req' = r
        /\ resp' = RequireAttributeServe(r, name, value)
    /\ UNCHANGED <<AllowIDPInitiated, keyOK, now, logins, issuedAt, sent>>

\* a request served by the middleware itself
Serve ==
    /\ call = Idle
    /\ \E r \in EndpointRequests :
        LET out == ServeHTTP(r, now, AllowIDPInitiated, keyOK)
        IN  /\ Cardinality(Sessions(sent \cup NamesOf(out.SetCookies))) <= MaxSessions
            /\ call' = [Idle EXCEPT !.fn = "ServeHTTP"]
            /\ req' = r
            /\ resp' = out
    /\ UNCHANGED <<AllowIDPInitiated, keyOK, now, logins, issuedAt, sent>>

\* the handler has returned: the client has the cookies of the response, and
\* the server waits for the next request
Return ==
    /\ call # Idle
    /\ sent' = sent \cup NamesOf(resp.SetCookies)
    /\ call' = Idle
    /\ req' = NoRequest
    /\ resp' = NoResponse
    /\ UNCHANGED <<AllowIDPInitiated, keyOK, now, logins, issuedAt>>

\* time passes between two requests
Tick ==
    /\ call = Idle
    /\ now < MaxTick * cookieMaxAge
    /\ now' = now + cookieMaxAge
    /\ UNCHANGED <<AllowIDPInitiated, keyOK, logins, issuedAt, sent, call, req, resp>>

Next == RequireAccount \/ RequireAttribute \/ Serve \/ Return \/ Tick

Spec == Init /\ [][Next]_vars


---------------------------------------------------------------------------
(* Properties *)

GateCall == call.fn = "RequireAccount"

AcsCall == call.fn = "ServeHTTP" /\ req.URL.Path = AcsPath

\* the value of the first cookie of the request named `name`, which exists
HasCookie(name) == \E i \in 1..Len(req.Cookies) : req.Cookies[i].Name = name

FirstCookie(name) == req.Cookies[CookieIndex(req.Cookies, name)].Value

\* a token that verifies now: an RSA method, the signature of the service
\* provider's key, and no expiry in the past
Verifies(token) ==
    /\ token.form = "jwt"
    /\ token.alg \in {"RS256", "RS384", "RS512"}
    /\ token.key = "sp"
    /\ \A k \in DOMAIN token.claims :
        (k = <<"e", "x", "p">> /\ token.claims[k].t = "num") => token.claims[k].n >= now

\* a well-formed token signed with another key or with another kind of method
Foreign(token) ==
    /\ token.form = "jwt"
    /\ token.key # "sp" \/ token.alg \notin {"RS256", "RS384", "RS512"}

\* the state cookies RequireAccount has set, and the session cookies
StateCookiesSent == {c \in sent : HasPrefix(c.Name, samlPrefix) /\ c.Value # Empty}

SessionCookiesSent == {c \in sent : c.Name = cookieName}

Relayed == req.RelayState # <<>>

\* the state cookie of the request's relay state was cleared by an earlier response
ClearedBefore == [Name |-> <<"saml_">> \o req.RelayState, Value |-> Empty] \in sent

(* C1: RequireAccount invokes the wrapped handler exactly when IsAuthorized
   returns true, and then the request's first "token" cookie verifies. *)
C1_NextIffAuthorized ==
    GateCall =>
        /\ resp.next <=> (\A o \in IsAuthorized(req, now) : o.ret = "true")
        /\ resp.next => (HasCookie(cookieName) /\ Verifies(FirstCookie(cookieName)))

C1_Witness == GateCall /\ resp.next /\ req.Cookies # <<>>

\* the redirect of RequireAccount: 302 to the engine's URL for the fresh relay
\* state, and one cookie saml_<relay state> for the assertion-consumer path
\* that binds the request ID and the request URI
RedirectsToLogin ==
    /\ resp.kind = "http"
    /\ resp.Status = 302
    /\ resp.Location = Redirect(RequestIDs[logins], RelayStates[logins])
    /\ Len(resp.SetCookies) = 1
    /\ resp.SetCookies[1].Name = <<"saml_">> \o RelayStates[logins]
    /\ resp.SetCookies[1].Path = AcsPath
    /\ resp.SetCookies[1].MaxAge = MaxIssueDelay
    /\ Verifies(resp.SetCookies[1].Value)
    /\ DOMAIN resp.SetCookies[1].Value.claims = {claimID, claimURI}
    /\ resp.SetCookies[1].Value.claims[claimID] = Str(RequestIDs[logins])
    /\ resp.SetCookies[1].Value.claims[claimURI] = Str(URLString(req.URL))

AsksForLogin ==
    /\ GateCall
    /\ resp.authorized = "false"
    /\ req.URL.Path # AcsPath
    /\ resp.made = "ok"

(* C2, as stated: every unauthorized request to another path than the
   assertion consumer's, for which the engine returns an authentication
   request, is answered by the redirect and the state cookie. *)
C2_Original == AsksForLogin => RedirectsToLogin

(* C2, amended: every unauthorized request to another path than the
   assertion consumer's, for which the engine returns an authentication
   request and the service provider's key signs the state token, is answered
   by the redirect and the state cookie. *)
C2_RedirectWhenSigned == (AsksForLogin /\ keyOK) => RedirectsToLogin

C2_Witness == AsksForLogin /\ keyOK /\ resp.Status = 302 /\ req.URL.RawQuery # <<>>

\* c is a state cookie the request carries under the name of its relay state,
\* and the engine accepted the assertion
Completes(c) ==
    /\ AcsCall
    /\ \E i \in 1..Len(req.Cookies) : req.Cookies[i] = c
    /\ c.Name = <<"saml_">> \o req.RelayState
    /\ resp.accepted

SetsSession == \E j \in 1..Len(resp.SetCookies) : resp.SetCookies[j].Name = cookieName

CleanURI(u) == \A i \in 1..Len(u) : u[i] \notin {"", ".", ".."}

(* C3, as stated: a POST to the assertion consumer that carries a state
   cookie RequireAccount issued, with its relay state and an accepted
   assertion, sets the session cookie and redirects to exactly the URI of
   the cookie. *)
C3_Original ==
    \A c \in StateCookiesSent :
        Completes(c) =>
            /\ resp.Status = 302
            /\ SetsSession
            /\ resp.Location = c.Value.claims[claimURI].s

(* C3, amended: a POST to the assertion consumer that carries a state cookie
   RequireAccount issued as the first cookie of its name, with its relay state
   and an accepted assertion, sets the session cookie and redirects to the URI
   of the cookie with its path cleaned, which is exactly that URI when its
   path has no empty, "." or ".." segment. *)
C3_RoundTrip ==
    \A c \in StateCookiesSent :
        (Completes(c) /\ FirstCookie(c.Name) = c.Value) =>
            /\ resp.Status = 302
            /\ SetsSession
            /\ resp.Location = RedirectLocation(req, c.Value.claims[claimURI].s)
            /\ CleanURI(c.Value.claims[claimURI].s)
                => resp.Location = c.Value.claims[claimURI].s

C3_Witness ==
    \E c \in StateCookiesSent :
        /\ Completes(c)
        /\ FirstCookie(c.Name) = c.Value
        /\ resp.Location = c.Value.claims[claimURI].s

(* C4, as stated: once the state cookie of a relay state has been resolved
   and cleared, a second resolve with that relay state fails with 403,
   whatever cookies the second request carries, the same cookie value
   included. *)
C4_Original == (AcsCall /\ Relayed /\ ClearedBefore /\ resp.accepted) => resp.Status = 403

\* the claim mapping of an attribute statement: the values of the last
\* attribute of each name, the friendly name when there is one
NameOf(attr) == IF attr.FriendlyName = <<>> THEN attr.Name ELSE attr.FriendlyName

ClaimMapping(attributes) ==
    [n \in {NameOf(attributes[i]) : i \in 1..Len(attributes)} |->
        attributes[CHOOSE i \in 1..Len(attributes) :
            /\ NameOf(attributes[i]) = n
            /\ \A j \in (i + 1)..Len(attributes) : NameOf(attributes[j]) # n].Values]

\* the session token was issued for these attributes
IssuedFor(token, attributes) ==
    /\ claimExp \in DOMAIN token.claims
    /\ token.claims[claimExp].t = "num"
    /\ token = SignedString(SessionClaims(attributes, token.claims[claimExp].n - cookieMaxAge))

(* C5, as stated: a request that carries only a session cookie issued for an
   assertion with the claim mapping C is authorized with the projected
   headers X-Saml-<name> matching C exactly. *)
C5_Original ==
    \A a \in Assertions :
        (/\ GateCall
         /\ Len(req.Cookies) = 1
         /\ req.Cookies[1] \in SessionCookiesSent
         /\ IssuedFor(req.Cookies[1].Value, a)
         /\ req.Header = NoHeader
         /\ resp.authorized = "true")
            => /\ DOMAIN resp.Header =
                    {CanonicalHeaderKey(XSamlName(n)) : n \in DOMAIN ClaimMapping(a)}
               /\ \A n \in DOMAIN ClaimMapping(a) :
                    resp.Header[CanonicalHeaderKey(XSamlName(n))] = ClaimMapping(a)[n]

(* C6: a well-formed token signed with another key, or with a method outside
   the RSA family, is not authorized as a session token, contributes no
   request ID as a state cookie, and is not resolved as a state cookie. *)
C6_ForeignTokensRejected ==
    /\ (GateCall /\ HasCookie(cookieName) /\ Foreign(FirstCookie(cookieName)))
            => (resp.authorized = "false" /\ ~resp.next)
    /\ (AcsCall /\ resp.collected) =>
            \A k \in 1..Len(resp.ids) :
                \/ resp.ids[k] = <<>> /\ AllowIDPInitiated
                \/ \E i \in 1..Len(req.Cookies) :
                        /\ ~Foreign(req.Cookies[i].Value)
                        /\ claimID \in DOMAIN req.Cookies[i].Value.claims
                        /\ req.Cookies[i].Value.claims[claimID].s = resp.ids[k]
    /\ (/\ AcsCall /\ Relayed /\ resp.accepted
        /\ HasCookie(<<"saml_">> \o req.RelayState)
        /\ Foreign(FirstCookie(<<"saml_">> \o req.RelayState)))
            => (resp.Status = 403 /\ resp.SetCookies = <<>>)

C6_Witness ==
    /\ GateCall
    /\ HasCookie(cookieName)
    /\ Foreign(FirstCookie(cookieName))
    /\ FirstCookie(cookieName).alg \notin {"RS256", "RS384", "RS512"}

ExpiredToken(token) ==
    /\ token.form = "jwt"
    /\ claimExp \in DOMAIN token.claims
    /\ token.claims[claimExp].t = "num"
    /\ token.claims[claimExp].n < now

(* C7: a session token whose expiry is in the past is not authorized, though
   correctly signed; the expiry of a session token is the time of its issue
   plus one hour. *)
C7_ExpiredNotAuthorized ==
    /\ (GateCall /\ HasCookie(cookieName) /\ ExpiredToken(FirstCookie(cookieName)))
            => (resp.authorized = "false" /\ ~resp.next)
    /\ AcsCall =>
            \A j \in 1..Len(resp.SetCookies) :
                resp.SetCookies[j].Name = cookieName
                    => resp.SetCookies[j].Value.claims[claimExp] = Num(now + 3600)

C7_Witness ==
    /\ GateCall
    /\ HasCookie(cookieName)
    /\ ExpiredToken(FirstCookie(cookieName))
    /\ FirstCookie(cookieName).key = "sp"
    /\ [Name |-> cookieName, Value |-> FirstCookie(cookieName)] \in sent

\* the request IDs of the request's state cookies that verify
VerifiedIDs ==
    {req.Cookies[i].Value.claims[claimID].s :
        i \in {j \in 1..Len(req.Cookies) :
                /\ HasPrefix(req.Cookies[j].Name, samlPrefix)
                /\ Verifies(req.Cookies[j].Value)
                /\ claimID \in DOMAIN req.Cookies[j].Value.claims}}

(* C8, as stated: getPossibleRequestIDs returns exactly the request IDs of
   the saml_ cookies that verify as state tokens, skipping the others, plus
   the empty string when IdP-initiated logins are allowed. *)
C8_Original ==
    AcsCall =>
        /\ resp.collected
        /\ Range(resp.ids) = VerifiedIDs \cup (IF AllowIDPInitiated THEN {<<>>} ELSE {})

(* C9, as stated: IsAuthorized panics on every request that carries a header
   of the X-Saml- namespace, whatever its session cookie: it does not return
   normally. *)
C9_Original ==
    (GateCall /\ \E h \in DOMAIN req.Header : HasPrefix(h, <<"X-Saml", "-">>))
        => resp.authorized = "panic"

(* C10: RequireAttribute(name, value) invokes the wrapped handler exactly when
   one of the values of the header X-Saml-<name> equals value, and answers 403
   otherwise. *)
C10_ExactAttributeMatch ==
    (call.fn = "RequireAttribute" /\ call.name \in {attrRole, attrRoleCap}) =>
        LET k == <<"X-Saml", "-", "R", "o", "l", "e">>
            matches == k \in DOMAIN req.Header /\ call.value \in Range(req.Header[k])
        IN  /\ resp.next <=> matches
            /\ ~matches => (resp.kind = "http" /\ resp.Status = 403 /\ ~resp.next)

C10_Witness ==
    /\ call.fn = "RequireAttribute"
    /\ call.value = admin
    /\ resp.next
    /\ req.Header[<<"X-Saml", "-", "R", "o", "l", "e">>] = <<user, admin>>

\* the response is the plain refusal: 403 with the status text, no cookie set
\* or cleared, no redirect
PlainForbidden ==
    /\ resp.kind = "http"
    /\ resp.Status = 403
    /\ resp.Body = "Forbidden"
    /\ resp.SetCookies = <<>>
    /\ resp.Location = <<>>

\* the request names a relay state whose cookie is missing or does not verify
StateCookieFails ==
    /\ Relayed
    /\ \/ ~HasCookie(<<"saml_">> \o req.RelayState)
       \/ ~Verifies(FirstCookie(<<"saml_">> \o req.RelayState))

(* C11, as stated: every request to the assertion consumer whose assertion the
   engine rejects, or whose relay state names a cookie that is missing or does
   not verify, is answered 403 with the status text, without any cookie set or
   cleared and without redirect; and a session cookie is set only after the
   engine accepted the assertion and the state cookie of a relay state
   verified. *)
C11_Original ==
    AcsCall =>
        /\ ((resp.collected /\ ~resp.accepted) \/ StateCookieFails) => PlainForbidden
        /\ SetsSession =>
            /\ resp.accepted
            /\ Relayed => (/\ HasCookie(<<"saml_">> \o req.RelayState)
                           /\ Verifies(FirstCookie(<<"saml_">> \o req.RelayState)))

(* C12: RequireAccount serving a request to the assertion consumer's path
   panics when IsAuthorized returned false, before it asks the engine for an
   authentication request: it sets no cookie and writes no redirect; when
   IsAuthorized returned true it invokes the wrapped handler. *)
C12_NoLoopThroughAcs ==
    (GateCall /\ req.URL.Path = <<"saml", "acs">>) =>
        /\ resp.authorized = "false" =>
            /\ resp.kind = "panic"
            /\ resp.made = "-"
            /\ resp.SetCookies = <<>>
            /\ resp.Location = <<>>
            /\ ~resp.next
        /\ resp.authorized = "true" => resp.next
        /\ resp.Status # 302

C12_Witness ==
    /\ GateCall
    /\ req.URL.Path = <<"saml", "acs">>
    /\ resp.authorized = "false"
    /\ resp.kind = "panic"
    /\ req.Cookies # <<>>

\* what RequireAccount(handler) may answer to the request
GateOutcomes ==
    {RequireAccountServe(req, auth, made, logins + 1, keyOK) :
        auth \in IsAuthorized(req, now), made \in BOOLEAN}

(* C13, as stated: ServeHTTP renders the metadata for the metadata path, runs
   the assertion consumer for its path, and hands a request to any other path
   to the chain of RequireAccount and the application's handler. *)
C13_Original ==
    call.fn = "ServeHTTP" =>
        /\ req.URL.Path = <<"saml", "metadata">> => resp.Body = "metadata"
        /\ req.URL.Path = <<"saml", "acs">> => (resp.collected \/ resp.kind = "panic")
        /\ req.URL.Path \notin {<<"saml", "metadata">>, <<"saml", "acs">>}
            => resp \in GateOutcomes

(* C13, amended: ServeHTTP renders the metadata for exactly the metadata path,
   runs the assertion consumer for exactly its path, and answers a request to
   any other path 404 itself, invoking no handler and no part of
   RequireAccount. *)
C13_ExactPathDispatch ==
    call.fn = "ServeHTTP" =>
        /\ req.URL.Path = <<"saml", "metadata">> =>
            /\ resp.kind = "http" /\ resp.Status = 200 /\ resp.Body = "metadata"
            /\ resp.SetCookies = <<>> /\ ~resp.collected
        /\ req.URL.Path = <<"saml", "acs">> => (resp.collected \/ resp.kind = "panic")
        /\ req.URL.Path \notin {<<"saml", "metadata">>, <<"saml", "acs">>} =>
            /\ resp.kind = "http" /\ resp.Status = 404
            /\ resp.SetCookies = <<>> /\ resp.Location = <<>>
            /\ ~resp.next /\ ~resp.collected
            /\ resp.authorized = "-" /\ resp.made = "-"

C13_Witness ==
    /\ call.fn = "ServeHTTP"
    /\ req.URL.Path = <<"saml", "acs", "">>
    /\ resp.Status = 404

\* a handler has served the request
Served == call.fn # "idle"

\* the answer is a panic of the handler
Fatal == resp.kind = "panic"

(* C14, as stated: a request ends in a redirect, a 403, a panic or the
   handler's answer; 500 is the answer only when the engine returned no
   authentication request; and a failure to sign is a panic, for the state
   token in RequireAccount as for the session token in Authorize. *)
C14_Original ==
    Served =>
        /\ resp.Status = 500 => (GateCall /\ resp.made = "err")
        /\ (AsksForLogin /\ ~keyOK) => Fatal
        /\ (AcsCall /\ resp.accepted /\ ~Relayed /\ ~keyOK) => Fatal

(* C14, amended: a request ends in the handler's answer, the metadata, a
   redirect, a 403, a 404, a 500 or a panic; 500 is the answer of
   RequireAccount, and only when the engine returned no authentication request
   or the state token cannot be signed; a failure to sign the session token in
   Authorize is a panic. *)
C14_FailuresClassified ==
    Served =>
        /\ resp.kind \in {"http", "panic"}
        /\ resp.kind = "http" => resp.Status \in {200, 302, 403, 404, 500}
        /\ resp.Status = 500 <=>
            (/\ GateCall /\ resp.authorized = "false"
             /\ req.URL.Path # <<"saml", "acs">>
             /\ (resp.made = "err" \/ ~keyOK))
        /\ (AcsCall /\ resp.accepted /\ ~Relayed /\ ~keyOK) => Fatal
        /\ ~keyOK => (resp.Status # 302 /\ resp.SetCookies = <<>>)

C14_Witness == AcsCall /\ resp.accepted /\ ~Relayed /\ ~keyOK /\ Fatal

\* the request's first "token" cookie is a session token Authorize issued,
\* and it verifies
ValidSession ==
    /\ HasCookie(cookieName)
    /\ [Name |-> cookieName, Value |-> FirstCookie(cookieName)] \in sent
    /\ Verifies(FirstCookie(cookieName))

\* the values the session token holds for the header k
ClaimedValues(k) ==
    UNION {Range(FirstCookie(cookieName).claims[n].a) :
            n \in {m \in DOMAIN FirstCookie(cookieName).claims :
                    /\ m # <<"e", "x", "p">>
                    /\ CanonicalHeaderKey(<<"X-Saml", "-">> \o m) = k}}

(* C15, as stated: a request with a valid session token reaches the wrapped
   handler whatever X-Saml- headers it came with, and the X-Saml- headers the
   handler sees hold the values of the session's attributes only. *)
C15_Original ==
    (GateCall /\ ValidSession) =>
        /\ resp.next
        /\ \A k \in DOMAIN resp.Header :
            HasPrefix(k, <<"X-Saml", "-">>) => Range(resp.Header[k]) = ClaimedValues(k)

\* a saml_ cookie that is stale or corrupted: the state cookie of a login, or
\* a value that does not verify
StaleOrCorrupted(c) ==
    \/ c \in StateCookiesSent
    \/ ~Verifies(c.Value)

\* the request completes the login of the state cookie a while the state
\* cookie b of another login is in flight: both are cookies of the request, a
\* is named by the relay state, the assertion is accepted
CompletesBeside(a, b) ==
    /\ a.Name # b.Name
    /\ Completes(a)
    /\ FirstCookie(a.Name) = a.Value
    /\ \E i \in 1..Len(req.Cookies) : req.Cookies[i] = b
    /\ \A i \in 1..Len(req.Cookies) : StaleOrCorrupted(req.Cookies[i])

\* the response clears the cookie named n, and no other cookie than it
ClearsOnly(n) ==
    /\ \E j \in 1..Len(resp.SetCookies) :
        resp.SetCookies[j].Name = n /\ resp.SetCookies[j].Value = Empty
    /\ \A j \in 1..Len(resp.SetCookies) :
        resp.SetCookies[j].Name \in {n, cookieName}

(* C16, as stated: with the state cookies of two logins A and B in the request,
   stale or corrupted saml_ cookies beside them, completing A redirects to the
   URI of A's cookie and clears A's cookie only, whether or not B completed
   before. *)
C16_Original ==
    \A a, b \in StateCookiesSent :
        CompletesBeside(a, b) =>
            /\ resp.Status = 302
            /\ resp.Location = a.Value.claims[claimURI].s
            /\ ClearsOnly(a.Name)

(* C16, amended: with the state cookies of two logins A and B in the request,
   stale or corrupted saml_ cookies beside them, completing A redirects to the
   URI of A's cookie with its path cleaned, which is that URI when its path has
   no empty, "." or ".." segment, and clears A's cookie only, whether or not B
   completed before. *)
C16_LoginsCoexist ==
    \A a, b \in StateCookiesSent :
        CompletesBeside(a, b) =>
            /\ resp.Status = 302
            /\ resp.Location = RedirectLocation(req, a.Value.claims[claimURI].s)
            /\ CleanURI(a.Value.claims[claimURI].s)
                => resp.Location = a.Value.claims[claimURI].s
            /\ ClearsOnly(a.Name)

\* the login completes after the other has, with three cookies in the request
C16_Witness ==
    \E a, b \in StateCookiesSent :
        /\ CompletesBeside(a, b)
        /\ [Name |-> b.Name, Value |-> Empty] \in sent
        /\ Len(req.Cookies) = 3
        /\ a.Value.claims[claimURI] # b.Value.claims[claimURI]
        /\ resp.Location = a.Value.claims[claimURI].s

(* C17, as stated: whenever the assertion consumer completes a login with a
   relay state, the request ID in the state cookie it resolved is the request
   ID the accepted assertion answers. *)
C17_Original ==
    (AcsCall /\ Relayed /\ resp.accepted /\ resp.Status = 302) =>
        FirstCookie(<<"saml_">> \o req.RelayState).claims[claimID].s
            = req.SAMLResponse.InResponseTo

(* C18: whenever RequireAccount invokes the wrapped handler, the request came
   without any header whose name starts with X-Saml, its first "token" cookie
   verifies, and every value of every X-Saml header the handler sees is a
   value of a claim of that token. *)
C18_HeaderProvenance ==
    (GateCall /\ resp.next) =>
        /\ HasCookie(cookieName)
        /\ Verifies(FirstCookie(cookieName))
        /\ \A k \in DOMAIN req.Header : ~HasPrefix(k, <<"X-Saml">>)
        /\ \A k \in DOMAIN resp.Header :
            HasPrefix(k, <<"X-Saml">>) =>
                /\ ClaimedValues(k) # {}
                /\ Range(resp.Header[k]) = ClaimedValues(k)

C18_Witness ==
    /\ GateCall
    /\ resp.next
    /\ <<"X-Saml", "-", "R", "o", "l", "e">> \in DOMAIN resp.Header
    /\ resp.Header[<<"X-Saml", "-", "R", "o", "l", "e">>] = <<user, admin>>

\* the tokens RequireAccount signed as state, and those Authorize signed as
\* session
StateTokens == {c.Value : c \in StateCookiesSent}

SessionTokens == {c.Value : c \in SessionCookiesSent}

(* C19: a state token presented as the "token" cookie never authorizes: the
   request panics and the wrapped handler is not invoked; a session token
   presented as a saml_ cookie yields no request ID (the collection panics
   when the token verifies, and skips it when it has expired) and is never
   resolved into a redirect. *)
C19_TokenKindsApart ==
    /\ (GateCall /\ HasCookie(cookieName) /\ FirstCookie(cookieName) \in StateTokens)
            => (resp.authorized = "panic" /\ resp.kind = "panic" /\ ~resp.next)
    /\ AcsCall =>
        \A i \in 1..Len(req.Cookies) :
            (/\ HasPrefix(req.Cookies[i].Name, <<"saml_">>)
             /\ req.Cookies[i].Value \in SessionTokens) =>
                /\ Verifies(req.Cookies[i].Value)
                    => (resp.kind = "panic" /\ ~resp.collected)
                /\ resp.collected => Len(resp.ids) <= Len(req.Cookies) - 1
                                        + (IF AllowIDPInitiated THEN 1 ELSE 0)
                /\ (req.Cookies[i].Name = <<"saml_">> \o req.RelayState
                    /\ FirstCookie(req.Cookies[i].Name) = req.Cookies[i].Value)
                    => (resp.Status # 302 /\ resp.Location = <<>>
                        /\ resp.SetCookies = <<>>)

C19_Witness ==
    /\ GateCall
    /\ HasCookie(cookieName)
    /\ FirstCookie(cookieName) \in StateTokens
    /\ req.Header = NoHeader
    /\ resp.authorized = "panic"

\* the cookie c is among those of the request
Carries(c) == \E i \in 1..Len(req.Cookies) : req.Cookies[i] = c

(* C20: a state token holds the claims id and uri and no expiry, and the state
   cookie of a login is accepted at any time after it was issued: its request
   ID is among those getPossibleRequestIDs returns, and Authorize resolves
   it into the redirect when it is the first cookie named by the relay
   state. *)
C20_StateTokensNeverExpire ==
    \A c \in StateCookiesSent :
        /\ DOMAIN c.Value.claims = {<<"i", "d">>, <<"u", "r", "i">>}
        /\ (AcsCall /\ Carries(c)) =>
            /\ resp.collected => c.Value.claims[claimID].s \in Range(resp.ids)
            /\ (Completes(c) /\ FirstCookie(c.Name) = c.Value) =>
                (resp.Status = 302 /\ SetsSession)

\* a state cookie resolved more than the maximum issue delay after its login
C20_Witness ==
    \E k \in 1..Len(issuedAt) :
        \E c \in StateCookiesSent :
            /\ c.Name = <<"saml_">> \o RelayStates[k]
            /\ c.Value.claims[claimID].s = RequestIDs[k]
            /\ now - issuedAt[k] > 90
            /\ Completes(c)
            /\ FirstCookie(c.Name) = c.Value
            /\ c.Value.claims[claimID].s \in Range(resp.ids)
            /\ resp.Status = 302

=============================================================================
